---- MODULE Spec2Model ----
(***************************************************************************)
(* Model of mcp_runn_server.py: the MCP tool surface over the Runn API.    *)
(*                                                                         *)
(* One tool invocation runs at a time (the server is synchronous).  A tool *)
(* action models the part of the handler that runs before the first        *)
(* network call (get_client, argument validation); PaginateStep and        *)
(* RequestStep model the network calls the handler then makes, one HTTP    *)
(* request per step, and compute the value the handler returns.  Return    *)
(* hands the outcome to the caller and frees the server for the next       *)
(* invocation.                                                             *)
(*                                                                         *)
(* RunnClient, build_billable_hours_report and parse_date live in          *)
(* runn_reports.py; their definitions here follow the written design.      *)
(*                                                                         *)
(* Python values:                                                          *)
(*   Optional[T]  a set with at most one element: None is {}, v is {v};    *)
(*   str          a sequence of one-character strings where its characters *)
(*                matter (method, names, dates), an atomic string where    *)
(*                only emptiness and identity matter (api key, path);      *)
(*   list         a sequence; dict: a record / function on its keys.       *)
(***************************************************************************)
EXTENDS Integers, Sequences, FiniteSets, TLC

VARIABLES
    env,        \* os.environ.get("RUNN_API_KEY"): Optional[str]
    pc,         \* position of the handler: "idle", "paginate", "request", "done"
    call,       \* the running invocation: tool name and arguments
    client,     \* api key the RunnClient of this invocation was built with (Optional)
    upstream,   \* the upstream's answers to this invocation's requests, in order
    requests,   \* log of the HTTP requests this invocation has issued
    fetched,    \* records yielded so far by client.paginate
    result,     \* value returned to the caller (Optional)
    error       \* exception raised to the caller (Optional)

vars == <<env, pc, call, client, upstream, requests, fetched, result, error>>

-----------------------------------------------------------------------------
(* Bounds of the model *)

MaxPages == 2       \* answers the fake upstream holds for one invocation
MaxPageLen == 2     \* records in one served page
MaxLimit == 2       \* largest limit argument
MaxActuals == 2     \* Actuals in the stream of one report
MaxPeople == 2      \* person records served to one list_people call

-----------------------------------------------------------------------------
(* Python values *)

None == {}
Some(v) == {v}
The(o) == CHOOSE v \in o : TRUE

\* Python truthiness of an Optional[str] (None and "" are falsy) and of an
\* Optional[int] (None and 0 are falsy)
TruthyStr(o) == o # None /\ The(o) # ""
TruthyInt(o) == o # None /\ The(o) # 0

LowerChars == <<"a","b","c","d","e","f","g","h","i","j","k","l","m",
                "n","o","p","q","r","s","t","u","v","w","x","y","z">>
UpperChars == <<"A","B","C","D","E","F","G","H","I","J","K","L","M",
                "N","O","P","Q","R","S","T","U","V","W","X","Y","Z">>

UpperChar(c) ==
    IF \E i \in 1..26 : LowerChars[i] = c
    THEN UpperChars[CHOOSE i \in 1..26 : LowerChars[i] = c]
    ELSE c

\* str.upper()
Upper(s) == [i \in 1..Len(s) |-> UpperChar(s[i])]

Whitespace == {" ", "\t", "\n"}

RECURSIVE LStrip(_)
LStrip(s) == IF s # <<>> /\ Head(s) \in Whitespace THEN LStrip(Tail(s)) ELSE s

RECURSIVE RStrip(_)
RStrip(s) ==
    IF s # <<>> /\ s[Len(s)] \in Whitespace THEN RStrip(SubSeq(s, 1, Len(s) - 1)) ELSE s

\* str.strip()
Strip(s) == RStrip(LStrip(s))

\* dict.get(key, default) on a record
Get(d, key, default) == IF key \in DOMAIN d THEN d[key] ELSE default

-----------------------------------------------------------------------------
(* Exceptions *)

\* get_client: raise RuntimeError("RUNN_API_KEY not set")
MissingKeyError == [type |-> "RuntimeError", msg |-> "RUNN_API_KEY not set"]
\* runn_request: raise ValueError("paginate=True only supports GET requests.")
PaginateMethodError ==
    [type |-> "ValueError", msg |-> "paginate=True only supports GET requests."]
\* parse_date on a malformed string
BadDateError == [type |-> "ValueError", msg |-> "invalid date"]
\* RunnClient.request: non-success HTTP status / unparseable body
UpstreamError == [type |-> "UpstreamError", msg |-> "HTTP 500"]
DecodeError == [type |-> "DecodeError", msg |-> "malformed JSON"]

-----------------------------------------------------------------------------
(* get_client *)

\* the environment value taken first
ResolveKey_EnvFirst(api_key, environ) == IF TruthyStr(environ) THEN environ ELSE api_key

\* api_key or os.getenv("RUNN_API_KEY")
ResolveKey(api_key, environ) == IF TruthyStr(api_key) THEN api_key ELSE environ

\* the check of the key left out
get_client_Unchecked(api_key, environ) ==
    [raised |-> None, key |-> ResolveKey(api_key, environ)]

\* get_client(api_key): the exception it raises, or the key of the client it builds
get_client(api_key, environ) ==
    LET key == ResolveKey(api_key, environ)
    IN  IF ~TruthyStr(key)
        THEN [raised |-> Some(MissingKeyError), key |-> None]
        ELSE [raised |-> None, key |-> key]

-----------------------------------------------------------------------------
(* runn_reports.parse_date *)

DigitChars == <<"0","1","2","3","4","5","6","7","8","9">>
IsDigit(c) == \E i \in 1..10 : DigitChars[i] = c
DigitVal(c) == (CHOOSE i \in 1..10 : DigitChars[i] = c) - 1

Num2(s, i) == 10 * DigitVal(s[i]) + DigitVal(s[i + 1])
Num4(s, i) == 100 * Num2(s, i) + Num2(s, i + 2)

IsLeap(y) == (y % 4 = 0 /\ y % 100 # 0) \/ y % 400 = 0
DaysIn(y, m) ==
    IF m = 2 THEN (IF IsLeap(y) THEN 29 ELSE 28)
    ELSE IF m \in {4, 6, 9, 11} THEN 30 ELSE 31

\* "YYYY-MM-DD" naming a day of the calendar
IsIsoDate(s) ==
    /\ Len(s) = 10
    /\ s[5] = "-" /\ s[8] = "-"
    /\ \A i \in {1, 2, 3, 4, 6, 7, 9, 10} : IsDigit(s[i])
    /\ Num4(s, 1) >= 1
    /\ Num2(s, 6) \in 1..12
    /\ Num2(s, 9) \in 1..DaysIn(Num4(s, 1), Num2(s, 6))

ToDate(s) == <<Num4(s, 1), Num2(s, 6), Num2(s, 9)>>

\* parse_date(value): None passes through, an ISO calendar date gives a date,
\* anything else raises
parse_date(value) ==
    IF value = None THEN [raised |-> None, value |-> None]
    ELSE IF IsIsoDate(The(value))
         THEN [raised |-> None, value |-> Some(ToDate(The(value)))]
         ELSE [raised |-> Some(BadDateError), value |-> None]

\* d1 < d2 on dates <<y, m, d>>
DateBefore(d1, d2) ==
    \/ d1[1] < d2[1]
    \/ d1[1] = d2[1] /\ d1[2] < d2[2]
    \/ d1[1] = d2[1] /\ d1[2] = d2[2] /\ d1[3] < d2[3]

-----------------------------------------------------------------------------
(* runn_reports.build_billable_hours_report *)

\* the record's date; upstream date strings are taken as they are
ActualDate(a) == ToDate(a.date)
\* calendar month "YYYY-MM": the date string truncated to year-month
ActualMonth(a) == SubSeq(a.date, 1, 7)
\* the billable-hours quantity; a missing or non-numeric value counts as zero
ActualHours(a) ==
    IF "hours" \in DOMAIN a /\ a.hours.t = "num" THEN a.hours.v ELSE 0

InWindow(a, start, end) ==
    /\ start = None \/ ~DateBefore(ActualDate(a), The(start))
    /\ end = None \/ ~DateBefore(The(end), ActualDate(a))

SameKey(row, a) ==
    /\ row.project_id = a.project
    /\ row.person_id = a.person
    /\ row.month = ActualMonth(a)

\* add one Actual to its (project, person, month) bucket
AddActual(rows, a) ==
    IF \E i \in 1..Len(rows) : SameKey(rows[i], a)
    THEN [i \in 1..Len(rows) |->
            IF SameKey(rows[i], a)
            THEN [rows[i] EXCEPT !.billable_hours = @ + ActualHours(a)]
            ELSE rows[i]]
    ELSE Append(rows, [project_id |-> a.project, person_id |-> a.person,
                       month |-> ActualMonth(a), billable_hours |-> ActualHours(a)])

RECURSIVE Aggregate(_, _, _, _)
Aggregate(rows, actuals, start, end) ==
    IF actuals = <<>> THEN rows
    ELSE Aggregate(IF InWindow(Head(actuals), start, end)
                   THEN AddActual(rows, Head(actuals)) ELSE rows,
                   Tail(actuals), start, end)

\* build_billable_hours_report(client, start, end) over the Actuals the client
\* paged in: one row per key, in order of first appearance
build_billable_hours_report(actuals, start, end) ==
    Aggregate(<<>>, actuals, start, end)

-----------------------------------------------------------------------------
(* runn_reports.RunnClient *)

\* page size of the client's own pagination (projects_lookup, the report's Actuals)
PageSize == 200

ArrayBody(items) == [kind |-> "array", items |-> items]
ObjectBody(fields) == [kind |-> "object", fields |-> fields]
Ok(body) == [ok |-> TRUE, body |-> body]
Failed(e) == [ok |-> FALSE, error |-> e]

\* the upstream's answer to the n-th request of an invocation: the fake upstream
\* serves its fixed answers in order and empty pages after them
Answer(ups, n) == IF n <= Len(ups) THEN ups[n] ELSE Ok(ArrayBody(<<>>))

\* the records of a list response: a bare array, or an object with a "values" array
PageRecords(body) == IF body.kind = "array" THEN body.items ELSE body.fields.values

\* paginate stops after a page of fewer than limit records, or of none
Exhausted(page, limit) == Len(page) < limit \/ Len(page) = 0

-----------------------------------------------------------------------------
(* The tools: what each handler does before its first network call *)

GET == <<"G", "E", "T">>

\* the keyword defaults of the tool signatures
DefaultCall ==
    [tool |-> "", api_key |-> None, full |-> FALSE, paginate |-> TRUE, limit |-> 200,
     method |-> GET, path |-> "", params |-> None, json_body |-> None,
     start |-> None, end |-> None, project_id |-> None, person_id |-> None]

Raised(key, e) == [client |-> key, error |-> Some(e), next |-> "done"]
Proceed(key, next) == [client |-> key, error |-> None, next |-> next]

\* the paginate flag ignored: always the single request
list_tool_begin_NeverPaginates(c, environ) ==
    LET g == get_client(c.api_key, environ)
    IN  IF g.raised # None THEN Raised(None, The(g.raised))
        ELSE Proceed(g.key, "request")

\* list_clients, list_assignments, list_actuals, list_roles, list_skills,
\* list_teams, list_rate_cards; list_people is the same up to its first request
list_tool_begin(c, environ) ==
    LET g == get_client(c.api_key, environ)
    IN  IF g.raised # None THEN Raised(None, The(g.raised))
        ELSE IF c.paginate THEN Proceed(g.key, "paginate")
        ELSE Proceed(g.key, "request")

\* list_projects: client.projects_lookup() pages through /projects
list_projects_begin(c, environ) ==
    LET g == get_client(c.api_key, environ)
    IN  IF g.raised # None THEN Raised(None, The(g.raised))
        ELSE Proceed(g.key, "paginate")

\* end parsed only once the report is built
billable_hours_begin_LateEnd(c, environ) ==
    LET g == get_client(c.api_key, environ)
    IN  IF g.raised # None THEN Raised(None, The(g.raised))
        ELSE IF parse_date(c.start).raised # None
             THEN Raised(g.key, The(parse_date(c.start).raised))
        ELSE Proceed(g.key, "paginate")

\* billable_hours: get_client, then both dates are parsed as arguments of the
\* call of build_billable_hours_report, start first
billable_hours_begin(c, environ) ==
    LET g == get_client(c.api_key, environ)
    IN  IF g.raised # None THEN Raised(None, The(g.raised))
        ELSE IF parse_date(c.start).raised # None
             THEN Raised(g.key, The(parse_date(c.start).raised))
        ELSE IF parse_date(c.end).raised # None
             THEN Raised(g.key, The(parse_date(c.end).raised))
        ELSE Proceed(g.key, "paginate")

\* the method test left out
runn_request_begin_AnyMethod(c, environ) ==
    LET g == get_client(c.api_key, environ)
    IN  IF g.raised # None THEN Raised(None, The(g.raised))
        ELSE IF c.paginate THEN Proceed(g.key, "paginate")
        ELSE Proceed(g.key, "request")

\* runn_request
runn_request_begin(c, environ) ==
    LET g == get_client(c.api_key, environ)
    IN  IF g.raised # None THEN Raised(None, The(g.raised))
        ELSE IF c.paginate
             THEN IF Upper(c.method) # GET
                  THEN Raised(g.key, PaginateMethodError)
                  ELSE Proceed(g.key, "paginate")
        ELSE Proceed(g.key, "request")

ToolPath(c) ==
    CASE c.tool = "list_projects" -> "/projects"
      [] c.tool = "list_people" -> "/people"
      [] c.tool = "billable_hours" -> "/actuals"
      [] c.tool = "list_clients" -> "/clients"
      [] c.tool = "list_assignments" -> "/assignments"
      [] c.tool = "list_actuals" -> "/actuals"
      [] c.tool = "list_roles" -> "/roles"
      [] c.tool = "list_skills" -> "/skills"
      [] c.tool = "list_teams" -> "/teams"
      [] c.tool = "list_rate_cards" -> "/rate-cards"
      [] OTHER -> c.path

\* the limit argument not passed on
PaginateLimit_Default(c) == PageSize

\* the limit handed to client.paginate
PaginateLimit(c) ==
    IF c.tool \in {"list_projects", "billable_hours"} THEN PageSize ELSE c.limit

\* the request a non-paginating handler sends
SingleRequest(c) ==
    IF c.tool = "runn_request"
    THEN [method |-> c.method, path |-> c.path, params |-> c.params,
          json_body |-> c.json_body, limit |-> None]
    ELSE [method |-> GET, path |-> ToolPath(c), params |-> c.params,
          json_body |-> None, limit |-> None]

\* a request of client.paginate: the limit query parameter bounds the page size
PageRequest(c) ==
    [method |-> GET, path |-> ToolPath(c), params |-> c.params, json_body |-> None,
     limit |-> Some(PaginateLimit(c))]

-----------------------------------------------------------------------------
(* The tools: the value each handler returns *)

\* .strip() left out
PersonView_NoStrip(p) ==
    [id |-> p.id,
     name |-> Get(p, "firstName", <<>>) \o <<" ">> \o Get(p, "lastName", <<>>),
     email |-> Get(p, "email", None)]

\* list_people: one {id, name, email} projection
PersonView(p) ==
    [id |-> p.id,
     name |-> Strip(Get(p, "firstName", <<>>) \o <<" ">> \o Get(p, "lastName", <<>>)),
     email |-> Get(p, "email", None)]

PeopleView(people_raw) == [i \in 1..Len(people_raw) |-> PersonView(people_raw[i])]

\* list_people, paginate=False: resp.get("values", []) if isinstance(resp, dict) else resp
PeopleRaw(resp) ==
    IF resp.kind = "object" THEN Get(resp.fields, "values", <<>>) ELSE resp.items

\* billable_hours: matches(row)
matches(row, project_id, person_id) ==
    IF TruthyInt(project_id) /\ row.project_id # The(project_id) THEN FALSE
    ELSE IF TruthyInt(person_id) /\ row.person_id # The(person_id) THEN FALSE
    ELSE TRUE

\* start passed for end as well
billable_hours_rows_StartTwice(c, actuals) ==
    LET rows == build_billable_hours_report(actuals, parse_date(c.start).value,
                                            parse_date(c.start).value)
    IN  SelectSeq(rows, LAMBDA row : matches(row, c.project_id, c.person_id))

\* billable_hours: the report of the parsed window, filtered by matches
billable_hours_rows(c, actuals) ==
    LET rows == build_billable_hours_report(actuals, parse_date(c.start).value,
                                            parse_date(c.end).value)
    IN  SelectSeq(rows, LAMBDA row : matches(row, c.project_id, c.person_id))

\* projects_lookup(): project id -> name, a later record replacing an earlier one
ProjectsLookup(projects) ==
    [id \in {projects[i].id : i \in 1..Len(projects)} |->
        projects[CHOOSE i \in 1..Len(projects) :
                    /\ projects[i].id = id
                    /\ \A j \in (i + 1)..Len(projects) : projects[j].id # id].name]

RECURSIVE SortedItems(_, _)
SortedItems(lookup, ids) ==
    IF ids = {} THEN <<>>
    ELSE LET least == CHOOSE id \in ids : \A other \in ids : id <= other
         IN  <<[id |-> least, name |-> lookup[least]]>>
                 \o SortedItems(lookup, ids \ {least})

\* list_projects: [{"id": pid, "name": name} for pid, name in sorted(lookup.items())]
list_projects_rows(projects) ==
    SortedItems(ProjectsLookup(projects), DOMAIN ProjectsLookup(projects))

\* what a handler returns from the records client.paginate yielded
PaginatedValue(c, records) ==
    CASE c.tool = "list_projects" -> list_projects_rows(records)
      [] c.tool = "billable_hours" -> billable_hours_rows(c, records)
      [] c.tool = "list_people" /\ ~c.full -> PeopleView(records)
      [] OTHER -> records

\* what a handler returns from the response of its single client.request
RequestValue(c, resp) ==
    IF c.tool = "list_people" /\ ~c.full THEN PeopleView(PeopleRaw(resp)) ELSE resp

\* the exception caught and the records at hand returned
Outcome_Partial(raised, value) == [result |-> Some(value), error |-> None]

\* no handler catches: an exception of the client ends the call as that
\* exception, otherwise the call returns its value
Outcome(raised, value) ==
    IF raised # None THEN [result |-> None, error |-> raised]
    ELSE [result |-> Some(value), error |-> None]

-----------------------------------------------------------------------------
(* Inputs *)

EnvValues == {None, Some(""), Some("ENVKEY")}
ApiKeys == {None, Some(""), Some("ARGKEY")}
Limits == 1..MaxLimit

\* a fake upstream is given by what each of its answers is: a page of 0..MaxPageLen
\* records, an UpstreamError (-1) or a DecodeError (-2)
AnswerKinds == (0..MaxPageLen) \cup {-1, -2}
\* the profiles of at most max answers
Profiles(max) == UNION {[1..n -> AnswerKinds] : n \in 0..max}
Shapes == {"array", "object"}

RECURSIVE Offset(_, _)
Offset(profile, i) ==
    IF i <= 1 THEN 0
    ELSE Offset(profile, i - 1) + (IF profile[i - 1] > 0 THEN profile[i - 1] ELSE 0)

Body(shape, items) ==
    IF shape = "array" THEN ArrayBody(items) ELSE ObjectBody([values |-> items])

Jan20 == <<"2","0","2","4","-","0","1","-","2","0">>
Jan31 == <<"2","0","2","4","-","0","1","-","3","1">>
Feb01 == <<"2","0","2","4","-","0","2","-","0","1">>
\* malformed dates: no such day, not a date
Feb30 == <<"2","0","2","4","-","0","2","-","3","0">>
Soon == <<"s","o","o","n">>

Item(i) == [id |-> i]
ProjectItem(i) == [id |-> 100 - i, name |-> <<"P", DigitChars[(i % 10) + 1]>>]
ActualItem(i) ==
    [project |-> 1, person |-> 10, date |-> IF i % 2 = 1 THEN Jan20 ELSE Feb01,
     hours |-> [t |-> "num", v |-> i]]

ItemOf(tool, i) ==
    CASE tool = "list_projects" -> ProjectItem(i)
      [] tool = "billable_hours" -> ActualItem(i)
      [] OTHER -> Item(i)

\* the answers of a profile; the records are numbered 1, 2, ... across
\* the pages
Served(profile, shape, tool) ==
    [i \in 1..Len(profile) |->
        IF profile[i] = -1 THEN Failed(UpstreamError)
        ELSE IF profile[i] = -2 THEN Failed(DecodeError)
        ELSE Ok(Body(shape, [k \in 1..profile[i] |-> ItemOf(tool, Offset(profile, i) + k)]))]

\* the upstreams a call of the tool surface is tried against: any profile for a
\* call that pages with the caller's limit, any single answer for a call that
\* sends one request or pages in pages of PageSize (no profile fills such a
\* page, so its first answer is the only one asked for)
Upstreams(c) ==
    LET paging == c.paginate /\ c.tool \notin {"list_projects", "billable_hours"}
        listing == c.paginate \/ c.tool \in {"list_projects", "billable_hours"}
    IN  {Served(pr, sh, c.tool) :
            pr \in (IF paging THEN Profiles(MaxPages) ELSE [1..1 -> AnswerKinds]),
            sh \in Shapes}
        \cup (IF listing THEN {} ELSE {<<Ok(ObjectBody([message |-> "ok"]))>>})

ListTools == {"list_clients", "list_assignments", "list_actuals", "list_roles",
              "list_skills", "list_teams", "list_rate_cards"}

ListCalls(tool) ==
    {[DefaultCall EXCEPT !.tool = tool, !.api_key = k, !.paginate = pg, !.limit = lim] :
        k \in ApiKeys, pg \in BOOLEAN, lim \in Limits}

PeopleCalls ==
    {[c EXCEPT !.full = f] : c \in ListCalls("list_people"), f \in BOOLEAN}

ProjectCalls == {[DefaultCall EXCEPT !.tool = "list_projects", !.api_key = k] : k \in ApiKeys}

DateArgs == {None, Some(Jan20), Some(Feb30), Some(Soon)}
IdArgs == {<<None, None>>, <<Some(0), Some(10)>>, <<Some(1), Some(0)>>}

HoursCalls ==
    {[DefaultCall EXCEPT !.tool = "billable_hours", !.api_key = k, !.start = s,
                         !.end = e, !.project_id = ids[1], !.person_id = ids[2]] :
        k \in ApiKeys, s \in DateArgs, e \in DateArgs, ids \in IdArgs}

Methods == {GET, <<"g", "e", "t">>, <<"P", "O", "S", "T">>}
Paths == {"/clients", "/people/7"}
Payloads == {None, Some("payload")}

RequestCalls ==
    {[DefaultCall EXCEPT !.tool = "runn_request", !.api_key = k, !.paginate = pg,
                         !.limit = lim, !.method = m, !.path = p, !.params = pl,
                         !.json_body = pl] :
        k \in ApiKeys, pg \in BOOLEAN, lim \in Limits, m \in Methods, p \in Paths,
        pl \in Payloads}

-----------------------------------------------------------------------------
(* Actions *)

Init ==
    /\ env \in EnvValues
    /\ pc = "idle"
    /\ call = DefaultCall
    /\ client = None
    /\ upstream = <<>>
    /\ requests = <<>>
    /\ fetched = <<>>
    /\ result = None
    /\ error = None

BeginOf(c, environ) ==
    CASE c.tool = "list_projects" -> list_projects_begin(c, environ)
      [] c.tool = "billable_hours" -> billable_hours_begin(c, environ)
      [] c.tool = "runn_request" -> runn_request_begin(c, environ)
      [] OTHER -> list_tool_begin(c, environ)

\* the caller invokes a tool with call c while the upstream is ups: the handler
\* runs up to its first network call
Invoke(c, ups) ==
    /\ pc = "idle"
    /\ call' = c
    /\ client' = BeginOf(c, env).client
    /\ error' = BeginOf(c, env).error
    /\ pc' = BeginOf(c, env).next
    /\ upstream' = ups
    /\ requests' = <<>>
    /\ fetched' = <<>>
    /\ result' = None
    /\ UNCHANGED env

list_projects ==
    /\ pc = "idle"
    /\ \E c \in ProjectCalls : \E ups \in Upstreams(c) : Invoke(c, ups)

list_people ==
    /\ pc = "idle"
    /\ \E c \in PeopleCalls : \E ups \in Upstreams(c) : Invoke(c, ups)

billable_hours ==
    /\ pc = "idle"
    /\ \E c \in HoursCalls : \E ups \in Upstreams(c) : Invoke(c, ups)

list_clients ==
    /\ pc = "idle"
    /\ \E c \in ListCalls("list_clients") : \E ups \in Upstreams(c) : Invoke(c, ups)

list_assignments ==
    /\ pc = "idle"
    /\ \E c \in ListCalls("list_assignments") : \E ups \in Upstreams(c) : Invoke(c, ups)

list_actuals ==
    /\ pc = "idle"
    /\ \E c \in ListCalls("list_actuals") : \E ups \in Upstreams(c) : Invoke(c, ups)

list_roles ==
    /\ pc = "idle"
    /\ \E c \in ListCalls("list_roles") : \E ups \in Upstreams(c) : Invoke(c, ups)

list_skills ==
    /\ pc = "idle"
    /\ \E c \in ListCalls("list_skills") : \E ups \in Upstreams(c) : Invoke(c, ups)

list_teams ==
    /\ pc = "idle"
    /\ \E c \in ListCalls("list_teams") : \E ups \in Upstreams(c) : Invoke(c, ups)

list_rate_cards ==
    /\ pc = "idle"
    /\ \E c \in ListCalls("list_rate_cards") : \E ups \in Upstreams(c) : Invoke(c, ups)

runn_request ==
    /\ pc = "idle"
    /\ \E c \in RequestCalls : \E ups \in Upstreams(c) : Invoke(c, ups)

\* client.paginate fetches its next page; after the last one the handler returns
PaginateStep ==
    /\ pc = "paginate"
    /\ requests' = Append(requests, PageRequest(call))
    /\ LET ans == Answer(upstream, Len(requests) + 1)
       IN  IF ~ans.ok
           THEN /\ pc' = "done"
                /\ result' = Outcome(Some(ans.error), fetched).result
                /\ error' = Outcome(Some(ans.error), fetched).error
                /\ UNCHANGED fetched
           ELSE LET page == PageRecords(ans.body)
                    all == fetched \o page
                IN  /\ fetched' = all
                    /\ IF Exhausted(page, PaginateLimit(call))
                       THEN /\ pc' = "done"
                            /\ result' = Outcome(None, PaginatedValue(call, all)).result
                            /\ error' = Outcome(None, PaginatedValue(call, all)).error
                       ELSE /\ pc' = "paginate"
                            /\ UNCHANGED <<result, error>>
    /\ UNCHANGED <<env, call, client, upstream>>

\* client.request sends the handler's single request and the handler returns
RequestStep ==
    /\ pc = "request"
    /\ requests' = Append(requests, SingleRequest(call))
    /\ LET ans == Answer(upstream, 1)
       IN  IF ~ans.ok
           THEN /\ result' = Outcome(Some(ans.error), <<>>).result
                /\ error' = Outcome(Some(ans.error), <<>>).error
           ELSE /\ result' = Outcome(None, RequestValue(call, ans.body)).result
                /\ error' = Outcome(None, RequestValue(call, ans.body)).error
    /\ pc' = "done"
    /\ UNCHANGED <<env, call, client, upstream, fetched>>

\* the caller has the outcome; client, lookups and records of the call are dropped
Return ==
    /\ pc = "done"
    /\ pc' = "idle"
    /\ call' = DefaultCall
    /\ client' = None
    /\ upstream' = <<>>
    /\ requests' = <<>>
    /\ fetched' = <<>>
    /\ result' = None
    /\ error' = None
    /\ UNCHANGED env

\* the process environment is changed between two invocations
SetEnv ==
    /\ pc = "idle"
    /\ \E v \in EnvValues : v # env /\ env' = v
    /\ UNCHANGED <<pc, call, client, upstream, requests, fetched, result, error>>

ToolCall ==
    \/ list_projects \/ list_people \/ billable_hours \/ list_clients
    \/ list_assignments \/ list_actuals \/ list_roles \/ list_skills
    \/ list_teams \/ list_rate_cards \/ runn_request

Next ==
    \/ list_projects
    \/ list_people
    \/ billable_hours
    \/ list_clients
    \/ list_assignments
    \/ list_actuals
    \/ list_roles
    \/ list_skills
    \/ list_teams
    \/ list_rate_cards
    \/ runn_request
    \/ PaginateStep
    \/ RequestStep
    \/ Return
    \/ SetEnv

Spec == Init /\ [][Next]_vars

-----------------------------------------------------------------------------
(* billable_hours over every short stream of Actuals *)

Hours == {[t |-> "num", v |-> 3], [t |-> "str", s |-> "n/a"]}
Actuals == [project : {0, 1}, person : {0, 10}, date : {Jan20, Feb01}, hours : Hours]
\* the streams of at most max Actuals
ActualStreams(max) == UNION {[1..n -> Actuals] : n \in 0..max}

ReportCalls ==
    {[DefaultCall EXCEPT !.tool = "billable_hours", !.start = s, !.end = e,
                         !.project_id = pid, !.person_id = per] :
        s \in {None, Some(Feb01)}, e \in {None, Some(Jan31)},
        pid \in {None, Some(0), Some(1)}, per \in {None, Some(0), Some(10)}}

billable_hours_report ==
    /\ pc = "idle"
    /\ \E c \in ReportCalls : \E stream \in ActualStreams(MaxActuals) :
            Invoke(c, <<Ok(ObjectBody([values |-> stream]))>>)

HoursInit == Init /\ env = Some("ENVKEY")
HoursNext == billable_hours_report \/ PaginateStep \/ Return
SpecHours == HoursInit /\ [][HoursNext]_vars

-----------------------------------------------------------------------------
(* list_people over every short directory of person records *)

FirstNames == {None, Some(<<"A", "n">>), Some(<<" ", "A">>)}
LastNames == {None, Some(<<"L">>), Some(<<"L", " ">>)}
\* no email key, "email": null, "email": "a@x"
Emails == {None, Some(None), Some(Some("a@x"))}

Person(id, first, last, email) ==
    [k \in {"id"} \cup (IF first = None THEN {} ELSE {"firstName"})
                  \cup (IF last = None THEN {} ELSE {"lastName"})
                  \cup (IF email = None THEN {} ELSE {"email"}) |->
        CASE k = "id" -> id
          [] k = "firstName" -> The(first)
          [] k = "lastName" -> The(last)
          [] k = "email" -> The(email)]

\* the directories of at most max person records
Directories(max) ==
    UNION {{[i \in 1..n |-> Person(i, f[i], l[i], e[i])] :
                f \in [1..n -> FirstNames], l \in [1..n -> LastNames],
                e \in [1..n -> Emails]} : n \in 0..max}

\* an upstream that serves the directory in pages of limit records
Chunks(records, limit) ==
    [i \in 1..((Len(records) + limit - 1) \div limit) |->
        SubSeq(records, (i - 1) * limit + 1,
               IF i * limit < Len(records) THEN i * limit ELSE Len(records))]

DirectoryUpstreams(c, people) ==
    IF c.paginate
    THEN {[i \in 1..Len(Chunks(people, c.limit)) |->
              Ok(Body("object", Chunks(people, c.limit)[i]))]}
    ELSE {<<Ok(Body(sh, people))>> : sh \in Shapes}

DirectoryCalls ==
    {[DefaultCall EXCEPT !.tool = "list_people", !.paginate = pg, !.limit = lim] :
        pg \in BOOLEAN, lim \in Limits}

list_people_directory ==
    /\ pc = "idle"
    /\ \E c \in DirectoryCalls : \E people \in Directories(MaxPeople) :
            \E ups \in DirectoryUpstreams(c, people) : Invoke(c, ups)

PeopleInit == Init /\ env = Some("ENVKEY")
PeopleNext == list_people_directory \/ PaginateStep \/ RequestStep \/ Return
SpecPeople == PeopleInit /\ [][PeopleNext]_vars

-----------------------------------------------------------------------------
(* A handler runs to its end: the server is synchronous and nothing preempts it *)

LiveInit == Init /\ env = Some("ENVKEY")
LiveNext == list_actuals \/ PaginateStep \/ RequestStep \/ Return
LiveSpec ==
    LiveInit /\ [][LiveNext]_vars /\ WF_vars(PaginateStep) /\ WF_vars(RequestStep)

-----------------------------------------------------------------------------
(* Properties *)

Invoked == pc # "idle"
Ended == pc = "done"
Returned == pc = "done" /\ error = None

Empty(o) == o \in {None, Some("")}
\* neither the api_key argument nor RUNN_API_KEY holds a credential
NoCredential == Empty(call.api_key) /\ Empty(env)

\* the records of the first n answers of an upstream, in order
RECURSIVE ConcatPages(_, _)
ConcatPages(ups, n) ==
    IF n = 0 THEN <<>>
    ELSE ConcatPages(ups, n - 1) \o PageRecords(Answer(ups, n).body)

\* C1: whatever the tool and its arguments, an invocation without a resolvable
\* credential has failed with the missing-key error (the AuthenticationError of
\* the design, a RuntimeError in the code), has built no client and has sent no
\* request.
C1_NoCredentialNoNetwork ==
    (Invoked /\ NoCredential) =>
        /\ Ended
        /\ error = Some(MissingKeyError)
        /\ result = None
        /\ client = None
        /\ requests = <<>>

C1_Witness ==
    /\ Ended /\ NoCredential
    /\ call.tool = "runn_request" /\ ~call.paginate
    /\ call.api_key = Some("") /\ env = None
    /\ upstream # <<>> /\ requests = <<>>
    /\ error = Some(MissingKeyError)

\* the method is GET in no spelling of its letters
NonRead(m) ==
    ~(/\ Len(m) = 3
      /\ m[1] \in {"G", "g"} /\ m[2] \in {"E", "e"} /\ m[3] \in {"T", "t"})

\* C2: runn_request with paginate=true and a method other than GET, called with
\* a resolvable credential, has failed with the ValueError of the method test
\* (the ValidationError of the design) and has sent no request, whatever path,
\* params, json_body and limit are.
C2_PaginateNeedsGet ==
    (/\ Invoked /\ call.tool = "runn_request" /\ call.paginate
     /\ ~NoCredential /\ NonRead(call.method)) =>
        /\ Ended
        /\ error = Some(PaginateMethodError)
        /\ result = None
        /\ requests = <<>>

C2_Witness ==
    /\ Ended /\ call.tool = "runn_request" /\ call.paginate
    /\ call.method = <<"P", "O", "S", "T">> /\ call.json_body # None
    /\ upstream # <<>> /\ requests = <<>>
    /\ error = Some(PaginateMethodError)

\* the key the amended C5 expects: the argument unless it is missing or empty,
\* else the environment value unless it is missing or empty
ExpectedKey(api_key, environ) ==
    IF ~Empty(api_key) THEN api_key
    ELSE IF ~Empty(environ) THEN environ
    ELSE None

\* C5 as amended: every invocation resolves the credential from its own
\* api_key argument and the environment value of that moment: a non-empty
\* argument wins over the environment, a missing or empty argument falls back
\* to the environment value, and no step of an invocation changes the
\* environment value or the client's key.
C5_Resolution ==
    [][/\ (pc = "idle" /\ pc' # "idle") =>
            (env' = env /\ client' = ExpectedKey(call'.api_key, env))
       /\ (pc # "idle") =>
            (env' = env /\ (pc' # "idle" => client' = client))]_vars

C5_Witness ==
    /\ Invoked /\ call.api_key = Some("") /\ env = Some("ENVKEY")
    /\ client = Some("ENVKEY") /\ requests # <<>>

\* C5 as stated: whenever the api_key argument is given, the client is built
\* with the argument's value.
C5_ArgumentAlwaysWins ==
    (Invoked /\ call.api_key # None /\ client # None) => client = call.api_key

RawListing ==
    \/ call.tool \in ListTools
    \/ call.tool = "runn_request"
    \/ call.tool = "list_people" /\ call.full

\* C7: a list tool called with paginate=true that returns has gone through
\* client.paginate with the caller's limit and returns the records of the pages
\* it was served, concatenated in the order of the requests: record i of the
\* result is record i of the upstream, none dropped, none repeated.
C7_Concatenation ==
    (Returned /\ RawListing /\ call.paginate) =>
        /\ requests # <<>>
        /\ \A i \in 1..Len(requests) : requests[i].limit = Some(call.limit)
        /\ fetched = ConcatPages(upstream, Len(requests))
        /\ result = Some(fetched)
        /\ \A i \in 1..Len(fetched) : fetched[i] = Item(i)

C7_Witness ==
    /\ Returned /\ call.tool = "list_clients" /\ call.paginate
    /\ Len(requests) >= 2
    /\ \A i \in 1..2 : PageRecords(Answer(upstream, i).body) # <<>>
    /\ Len(The(result)) >= 3

\* C9: once a request of an invocation has failed, the invocation has ended
\* with the error of that request, it returns nothing, and the failed request
\* is the last one it sent.
C9_NoPartialResult ==
    (Invoked /\ \E i \in 1..Len(requests) : ~Answer(upstream, i).ok) =>
        /\ Ended
        /\ result = None
        /\ \A i \in 1..(Len(requests) - 1) : Answer(upstream, i).ok
        /\ error = Some(Answer(upstream, Len(requests)).error)

C9_Witness ==
    /\ Ended /\ call.tool = "list_people" /\ ~call.full /\ call.paginate
    /\ Len(requests) = 2 /\ fetched # <<>>
    /\ error = Some(DecodeError) /\ result = None

Malformed(o) == o \in {Some(Feb30), Some(Soon)}

\* C10: billable_hours called with a resolvable credential and a malformed
\* start or end has failed with the date error (the ValidationError of the
\* design) and has sent no request, whichever date is malformed and whatever
\* the id filters are.
C10_DatesBeforeReport ==
    (/\ Invoked /\ call.tool = "billable_hours" /\ ~NoCredential
     /\ (Malformed(call.start) \/ Malformed(call.end))) =>
        /\ Ended
        /\ error = Some(BadDateError)
        /\ result = None
        /\ requests = <<>>

C10_Witness ==
    /\ Ended /\ call.tool = "billable_hours"
    /\ call.start = Some(Jan20) /\ call.end = Some(Feb30)
    /\ call.project_id = Some(0)
    /\ upstream # <<>> /\ requests = <<>>
    /\ error = Some(BadDateError)

\* the rows the Report Builder produced for the call
BuilderRows ==
    build_billable_hours_report(fetched, parse_date(call.start).value,
                                parse_date(call.end).value)

\* the filter of C3: equality with every id that is given
EqualityFilter(row) ==
    /\ call.project_id = None \/ row.project_id = The(call.project_id)
    /\ call.person_id = None \/ row.person_id = The(call.person_id)

\* C3: billable_hours returns, in the builder's order, exactly the builder's
\* rows whose project_id equals the given project_id and whose person_id equals
\* the given person_id, an id of 0 included; an id that is not given excludes
\* no row.
C3_FilterByEquality ==
    (Returned /\ call.tool = "billable_hours") =>
        result = Some(SelectSeq(BuilderRows, EqualityFilter))

\* the Actuals of the stream that fall in the window of the call and carry the
\* (project, person, month) of the row
Matching(row) ==
    {i \in 1..Len(fetched) :
        /\ fetched[i].project = row.project_id
        /\ fetched[i].person = row.person_id
        /\ SubSeq(fetched[i].date, 1, 7) = row.month
        /\ call.start = None
             \/ ~DateBefore(ToDate(fetched[i].date), ToDate(The(call.start)))
        /\ call.end = None
             \/ ~DateBefore(ToDate(The(call.end)), ToDate(fetched[i].date))}

NumericHours(a) == IF a.hours.t = "num" THEN a.hours.v ELSE 0

RECURSIVE SumHours(_)
SumHours(indices) ==
    IF indices = {} THEN 0
    ELSE LET i == CHOOSE j \in indices : TRUE
         IN  NumericHours(fetched[i]) + SumHours(indices \ {i})

\* C6: the rows billable_hours returns hold no (project_id, person_id, month)
\* twice, and the billable_hours of each row is the sum of the hours of the
\* Actuals of the stream that lie in the date window and carry that triple.
C6_UniqueSummedRows ==
    (Returned /\ call.tool = "billable_hours") =>
        LET rows == The(result)
        IN  /\ \A i, j \in 1..Len(rows) :
                  (/\ rows[i].project_id = rows[j].project_id
                   /\ rows[i].person_id = rows[j].person_id
                   /\ rows[i].month = rows[j].month) => i = j
            /\ \A i \in 1..Len(rows) :
                  /\ Matching(rows[i]) # {}
                  /\ rows[i].billable_hours = SumHours(Matching(rows[i]))

C6_Witness ==
    /\ Returned /\ call.tool = "billable_hours" /\ call.end = Some(Jan31)
    /\ Len(fetched) = 2
    /\ The(result) = <<[project_id |-> 1, person_id |-> 10,
                        month |-> SubSeq(Jan20, 1, 7), billable_hours |-> 6]>>

\* the person records the upstream holds, in its order
Directory == ConcatPages(upstream, Len(upstream))

FirstOf(p) == IF "firstName" \in DOMAIN p THEN p.firstName ELSE <<>>
LastOf(p) == IF "lastName" \in DOMAIN p THEN p.lastName ELSE <<>>
Trimmed(s) == s = <<>> \/ (s[1] \notin Whitespace /\ s[Len(s)] \notin Whitespace)

\* name is "first last" without the whitespace at its two ends
IsTrimmedJoin(name, first, last) ==
    LET joined == first \o <<" ">> \o last
    IN  /\ Trimmed(name)
        /\ \E a \in 0..Len(joined) : \E b \in a..Len(joined) :
              /\ name = SubSeq(joined, a + 1, b)
              /\ \A k \in (1..a) \cup ((b + 1)..Len(joined)) : joined[k] \in Whitespace

PageLen(i) == Len(PageRecords(Answer(upstream, i).body))
FullPage(i) == Answer(upstream, i).ok /\ PageLen(i) >= call.limit /\ PageLen(i) > 0

\* paginate sends a request only after full pages, goes on only after a full
\* page, and yields its last record only after a page of fewer than limit
\* records or of none
StopRule ==
    (pc \in {"paginate", "done"} /\ call.paginate /\ client # None) =>
        /\ \A i \in 1..(Len(requests) - 1) : FullPage(i)
        /\ (pc = "paginate" /\ requests # <<>>) => FullPage(Len(requests))
        /\ Returned => (requests # <<>> /\ ~FullPage(Len(requests)))

\* C8: pagination stops at the first page of fewer than limit records or of no
\* record and sends nothing after it, a page of limit records is followed by
\* one more request, and over an upstream of finitely many records every
\* paginated invocation ends.
C8_PaginationTerminates ==
    /\ []StopRule
    /\ (pc = "paginate") ~> (pc = "done")

C8_Witness ==
    /\ Returned /\ call.paginate
    /\ Len(requests) = Len(upstream) + 1
    /\ Len(upstream) >= 2
    /\ \A i \in 1..Len(upstream) : PageLen(i) = call.limit

====
